---- MODULE Spec2Model ----
(***************************************************************************)
(* Model of the non-visual core of the Gantt planner:                      *)
(*   - UndoHistory   (src/src/model/history.rs)                            *)
(*   - Project       (src/src/model/project.rs)                            *)
(*   - the task editor's fields (src/src/ui/task_editor.rs)               *)
(*   - TimelineViewport (src/src/model/timeline.rs), in f32 arithmetic     *)
(*   - datetime_serde (src/src/model/task.rs)                              *)
(*                                                                         *)
(* A snapshot holds two opaque content identifiers, one for the cloned     *)
(* task vector and one for the cloned dependency vector: UndoHistory only  *)
(* clones and moves them, it never looks inside.                           *)
(***************************************************************************)
EXTENDS Integers, Sequences, FiniteSets, TLC

VARIABLES
    past,        \* UndoHistory.past   : Vec<ProjectSnapshot>
    future,      \* UndoHistory.future : Vec<ProjectSnapshot>
    ret,         \* Option<ProjectSnapshot> returned by the last undo/redo
    lastOp,      \* name of the last UndoHistory call
    calls,       \* the calls made so far on the bare API, oldest first
    cur,         \* the caller's current project state (tasks, dependencies)
    timeline,    \* the states the session went through on its current branch
    pos,         \* index in timeline of the state the session is in
    overflowed,  \* a mutation was made with MAX_HISTORY undoable steps below it
    nMut,        \* mutations made in the session
    nUndoRedo,   \* undo and redo requests made in the session
    nClear,      \* clear calls made in the session
    tasks,       \* Project.tasks : Vec<Task>
    projOp,      \* name of the last operation on the project's tasks
    nEdit,       \* parent selections made in the editor
    nField,      \* date, progress and milestone edits made in the editor
    scale,           \* TimelineViewport.scale
    pixels_per_day,  \* TimelineViewport.pixels_per_day  : f32
    pixels_per_hour, \* TimelineViewport.pixels_per_hour : f32
    viewOp,      \* name of the last TimelineViewport call
    zoomed_from, \* pixels_per_day before the last zoom
    held,        \* the zoom control held down: "none", "in" or "out"
    conv,        \* the last datetime converted, its pixel offset and the way back
    text,        \* the string of the last datetime field read or written
    decoded,     \* Result<NaiveDateTime, D::Error> of the last read
    written,     \* the NaiveDateTime of the last write
    serdeOp      \* name of the last datetime_serde call

vars == <<past, future, ret, lastOp, calls, cur, timeline, pos, overflowed,
          nMut, nUndoRedo, nClear, tasks, projOp, nEdit, nField,
          scale, pixels_per_day, pixels_per_hour, viewOp, zoomed_from, held, conv,
          text, decoded, written, serdeOp>>

histVars    == <<past, future, ret, lastOp>>
sessionVars == <<cur, timeline, pos, overflowed, nMut, nUndoRedo, nClear>>
projVars    == <<tasks, projOp, nEdit, nField>>
viewVars    == <<scale, pixels_per_day, pixels_per_hour, viewOp, zoomed_from, held, conv>>
serdeVars   == <<text, decoded, written, serdeOp>>

----------------------------------------------------------------------------
(* Bounds *)

MaxCalls     == 4    \* calls on the bare API
NumContents  == 2    \* distinct task-vector / dependency-vector contents
MaxMutations == 52   \* mutations in one session (two more than MAX_HISTORY)
MaxUndoRedo  == 2    \* undo/redo requests in one session
MaxClears    == 1    \* clear calls in one session
NumTasks     == 3    \* tasks in the project
MaxDay       == 1    \* task dates range over 0..MaxDay
MaxEdits     == 3    \* parent selections made in the editor
MaxFieldEdits == 2   \* date, progress and milestone edits made in the editor
MaxEditorSteps == 3  \* parent selections and field edits of one editor session
MaxSpanDays  == 365  \* converted datetimes lie within this many days of the viewport start

----------------------------------------------------------------------------
(* history.rs *)

MAX_HISTORY == 50

ProjectSnapshot(t, d) == [tasks |-> t, dependencies |-> d]

None    == <<>>
Some(s) == <<s>>

Front(s) == SubSeq(s, 1, Len(s) - 1)
Last(s)  == s[Len(s)]

new == [past |-> <<>>, future |-> <<>>]

\* push with the capacity test off by one: the eviction starts one push late
push_lateEviction(self, t, d) ==
    LET kept == IF Len(self.past) > MAX_HISTORY
                THEN Tail(self.past)
                ELSE self.past
    IN  [past   |-> Append(kept, ProjectSnapshot(t, d)),
         future |-> <<>>]

\* push that forgets to clear the redo stack
push_keepsFuture(self, t, d) ==
    LET kept == IF Len(self.past) >= MAX_HISTORY
                THEN Tail(self.past)
                ELSE self.past
    IN  [past   |-> Append(kept, ProjectSnapshot(t, d)),
         future |-> self.future]

push(self, t, d) ==
    LET kept == IF Len(self.past) >= MAX_HISTORY
                THEN Tail(self.past)
                ELSE self.past
    IN  [past   |-> Append(kept, ProjectSnapshot(t, d)),
         future |-> <<>>]

\* undo that takes the oldest snapshot (remove(0)) instead of the newest (pop)
undo_takesOldest(self, current_tasks, current_deps) ==
    IF self.past = <<>>
    THEN [self |-> self, result |-> None]
    ELSE [self   |-> [past   |-> Tail(self.past),
                      future |-> Append(self.future,
                                        ProjectSnapshot(current_tasks, current_deps))],
          result |-> Some(Head(self.past))]

\* undo that saves the popped snapshot, not the caller's current state, for redo
undo_savesPopped(self, current_tasks, current_deps) ==
    IF self.past = <<>>
    THEN [self |-> self, result |-> None]
    ELSE [self   |-> [past   |-> Front(self.past),
                      future |-> Append(self.future, Last(self.past))],
          result |-> Some(Last(self.past))]

\* undo that saves the current state for redo before it looks at the past stack
undo_savesFirst(self, current_tasks, current_deps) ==
    LET saved == Append(self.future, ProjectSnapshot(current_tasks, current_deps))
    IN  IF self.past = <<>>
        THEN [self |-> [past |-> self.past, future |-> saved], result |-> None]
        ELSE [self   |-> [past |-> Front(self.past), future |-> saved],
              result |-> Some(Last(self.past))]

undo(self, current_tasks, current_deps) ==
    IF self.past = <<>>
    THEN [self |-> self, result |-> None]
    ELSE [self   |-> [past   |-> Front(self.past),
                      future |-> Append(self.future,
                                        ProjectSnapshot(current_tasks, current_deps))],
          result |-> Some(Last(self.past))]

redo(self, current_tasks, current_deps) ==
    IF self.future = <<>>
    THEN [self |-> self, result |-> None]
    ELSE [self   |-> [past   |-> Append(self.past,
                                        ProjectSnapshot(current_tasks, current_deps)),
                      future |-> Front(self.future)],
          result |-> Some(Last(self.future))]

can_undo(self) == self.past # <<>>

can_redo(self) == self.future # <<>>

clear(self) == [past |-> <<>>, future |-> <<>>]

History == [past |-> past, future |-> future]

----------------------------------------------------------------------------
(* Calls on the bare API, with arguments of the caller's choosing *)

Contents  == 1..NumContents
Snapshots == {ProjectSnapshot(t, d) : t \in Contents, d \in Contents}

Call(op, s) == [op |-> op, tasks |-> s.tasks, dependencies |-> s.dependencies]

ApiPush(s) ==
    /\ Len(calls) < MaxCalls
    /\ LET h == push(History, s.tasks, s.dependencies)
       IN  /\ past'   = h.past
           /\ future' = h.future
    /\ ret'    = None
    /\ lastOp' = "push"
    /\ calls'  = Append(calls, Call("push", s))
    /\ UNCHANGED <<viewVars, serdeVars, sessionVars, projVars>>

ApiUndo(c) ==
    /\ Len(calls) < MaxCalls
    /\ LET r == undo(History, c.tasks, c.dependencies)
       IN  /\ past'   = r.self.past
           /\ future' = r.self.future
           /\ ret'    = r.result
    /\ lastOp' = "undo"
    /\ calls'  = Append(calls, Call("undo", c))
    /\ UNCHANGED <<viewVars, serdeVars, sessionVars, projVars>>

ApiRedo(c) ==
    /\ Len(calls) < MaxCalls
    /\ LET r == redo(History, c.tasks, c.dependencies)
       IN  /\ past'   = r.self.past
           /\ future' = r.self.future
           /\ ret'    = r.result
    /\ lastOp' = "redo"
    /\ calls'  = Append(calls, Call("redo", c))
    /\ UNCHANGED <<viewVars, serdeVars, sessionVars, projVars>>

ApiClear ==
    /\ Len(calls) < MaxCalls
    /\ LET h == clear(History)
       IN  /\ past'   = h.past
           /\ future' = h.future
    /\ ret'    = None
    /\ lastOp' = "clear"
    /\ calls'  = Append(calls, [op |-> "clear", tasks |-> 0, dependencies |-> 0])
    /\ UNCHANGED <<viewVars, serdeVars, sessionVars, projVars>>

----------------------------------------------------------------------------
(* An editing session that follows the protocol of history.rs: the current *)
(* state is pushed before every mutation, and the snapshot that undo or    *)
(* redo returns replaces the current state.  The k-th mutation produces    *)
(* content k: a task edit when k is odd, a dependency edit when k is even. *)

Edited(state, k) ==
    IF k % 2 = 1
    THEN ProjectSnapshot(k, state.dependencies)
    ELSE ProjectSnapshot(state.tasks, k)

Mutate ==
    /\ nMut < MaxMutations
    /\ LET h == push(History, cur.tasks, cur.dependencies)
       IN  /\ past'   = h.past
           /\ future' = h.future
    /\ ret'    = None
    /\ lastOp' = "push"
    /\ cur'    = Edited(cur, nMut + 1)
    /\ nMut'   = nMut + 1
    /\ timeline'   = Append(SubSeq(timeline, 1, pos), cur')
    /\ pos'        = pos + 1
    /\ overflowed' = (overflowed \/ pos > MAX_HISTORY)
    /\ UNCHANGED <<viewVars, serdeVars, calls, nUndoRedo, nClear, projVars>>

Undo ==
    /\ nUndoRedo < MaxUndoRedo
    /\ LET r == undo(History, cur.tasks, cur.dependencies)
       IN  /\ past'   = r.self.past
           /\ future' = r.self.future
           /\ ret'    = r.result
           /\ cur'    = IF r.result = None THEN cur ELSE r.result[1]
    /\ lastOp'    = "undo"
    /\ nUndoRedo' = nUndoRedo + 1
    /\ pos'       = IF pos > 1 THEN pos - 1 ELSE pos
    /\ UNCHANGED <<viewVars, serdeVars, calls, timeline, overflowed, nMut, nClear, projVars>>

Redo ==
    /\ nUndoRedo < MaxUndoRedo
    /\ LET r == redo(History, cur.tasks, cur.dependencies)
       IN  /\ past'   = r.self.past
           /\ future' = r.self.future
           /\ ret'    = r.result
           /\ cur'    = IF r.result = None THEN cur ELSE r.result[1]
    /\ lastOp'    = "redo"
    /\ nUndoRedo' = nUndoRedo + 1
    /\ pos'       = IF pos < Len(timeline) THEN pos + 1 ELSE pos
    /\ UNCHANGED <<viewVars, serdeVars, calls, timeline, overflowed, nMut, nClear, projVars>>

Clear ==
    /\ nClear < MaxClears
    /\ LET h == clear(History)
       IN  /\ past'   = h.past
           /\ future' = h.future
    /\ ret'     = None
    /\ lastOp'  = "clear"
    /\ nClear'  = nClear + 1
    /\ timeline'   = <<cur>>
    /\ pos'        = 1
    /\ overflowed' = FALSE
    /\ UNCHANGED <<viewVars, serdeVars, calls, cur, nMut, nUndoRedo, projVars>>

----------------------------------------------------------------------------

(* task.rs, project.rs *)

\* progress is an f32 in the source; the model keeps it as an exact fraction
\* n/d in lowest terms, so that a mean of progress values is exact.
RECURSIVE GCD(_, _)
GCD(a, b) == IF b = 0 THEN a ELSE GCD(b, a % b)

Frac(n, d) == LET g == GCD(n, d) IN [n |-> n \div g, d |-> d \div g]

FracAdd(a, b) == Frac(a.n * b.d + b.n * a.d, a.d * b.d)

FracDiv(a, k) == Frac(a.n, a.d * k)

\* Task::new: no parent, zero progress, not a milestone
Task_new(id, start, end) ==
    [id           |-> id,
     start        |-> start,
     end          |-> end,
     progress     |-> Frac(0, 1),
     parent_id    |-> None,
     is_milestone |-> FALSE]

\* Task::new_milestone: start = end = date, zero progress, a milestone
Task_new_milestone(id, date) ==
    [id           |-> id,
     start        |-> date,
     end          |-> date,
     progress     |-> Frac(0, 1),
     parent_id    |-> None,
     is_milestone |-> TRUE]

\* iter().filter(pred).cloned().collect()
Children(ts, pid) == SelectSeq(ts, LAMBDA t : t.parent_id = Some(pid))

RECURSIVE MinStart(_)
MinStart(ts) ==
    IF Len(ts) = 1 THEN ts[1].start
    ELSE LET m == MinStart(Tail(ts))
         IN  IF ts[1].start <= m THEN ts[1].start ELSE m

RECURSIVE MaxEnd(_)
MaxEnd(ts) ==
    IF Len(ts) = 1 THEN ts[1].end
    ELSE LET m == MaxEnd(Tail(ts))
         IN  IF ts[1].end >= m THEN ts[1].end ELSE m

RECURSIVE SumProgress(_)
SumProgress(ts) ==
    IF ts = <<>> THEN Frac(0, 1)
    ELSE FracAdd(SumProgress(Front(ts)), Last(ts).progress)

\* iter_mut().find(|t| t.id == pid): index of the first task with that id, 0 if none
RECURSIVE FindFrom(_, _, _)
FindFrom(ts, pid, i) ==
    IF i > Len(ts) THEN 0
    ELSE IF ts[i].id = pid THEN i
    ELSE FindFrom(ts, pid, i + 1)

Find(ts, pid) == FindFrom(ts, pid, 1)

\* the distinct parent ids collected into the HashSet
ParentIdSet(ts) ==
    {ts[i].parent_id[1] : i \in {j \in 1..Len(ts) : ts[j].parent_id # None}}

\* the orders in which the HashSet may hand out its elements
IterationOrders(S) ==
    {o \in [1..Cardinality(S) -> S] : \A x \in S : \E i \in 1..Cardinality(S) : o[i] = x}

\* RecalculateOne writing into the first task when no task has the parent id
RecalculateOne_orFirst(ts, pid) ==
    LET children == Children(ts, pid)
        k        == IF Find(ts, pid) = 0 THEN 1 ELSE Find(ts, pid)
    IN  IF children = <<>> THEN ts
        ELSE [ts EXCEPT ![k].start    = MinStart(children),
                        ![k].end      = MaxEnd(children),
                        ![k].progress = FracDiv(SumProgress(children), Len(children))]

\* one turn of the loop over parent_ids
RecalculateOne(ts, pid) ==
    LET children == Children(ts, pid)
        k        == Find(ts, pid)
    IN  IF children = <<>> THEN ts
        ELSE IF k = 0 THEN ts
        ELSE [ts EXCEPT ![k].start    = MinStart(children),
                        ![k].end      = MaxEnd(children),
                        ![k].progress = FracDiv(SumProgress(children), Len(children))]

RECURSIVE RecalculateFrom(_, _, _)
RecalculateFrom(ts, order, i) ==
    IF i > Len(order) THEN ts
    ELSE RecalculateFrom(RecalculateOne(ts, order[i]), order, i + 1)

\* recalculate_parent_dates, the HashSet iterated in the given order
recalculate_parent_dates(ts, order) == RecalculateFrom(ts, order, 1)

RECURSIVE Groups(_, _, _)
Groups(ts, top_level, i) ==
    IF i > Len(top_level) THEN <<>>
    ELSE <<top_level[i]>> \o Children(ts, top_level[i].id) \o Groups(ts, top_level, i + 1)

RECURSIVE AppendOrphans(_, _, _)
AppendOrphans(result, ts, i) ==
    IF i > Len(ts) THEN result
    ELSE IF \E k \in 1..Len(result) : result[k].id = ts[i].id
         THEN AppendOrphans(result, ts, i + 1)
         ELSE AppendOrphans(Append(result, ts[i]), ts, i + 1)

\* sort_tasks_grouped whose loop over the top-level tasks forgets the children
sort_tasks_grouped_topFirst(ts) ==
    LET top_level == SelectSeq(ts, LAMBDA t : t.parent_id = None)
    IN  AppendOrphans(top_level, ts, 1)

\* sort_tasks_grouped without the final pass over the tasks not yet placed
sort_tasks_grouped_noOrphans(ts) ==
    LET top_level == SelectSeq(ts, LAMBDA t : t.parent_id = None)
    IN  Groups(ts, top_level, 1)

sort_tasks_grouped(ts) ==
    LET top_level == SelectSeq(ts, LAMBDA t : t.parent_id = None)
    IN  AppendOrphans(Groups(ts, top_level, 1), ts, 1)

Recalculate ==
    /\ \E order \in IterationOrders(ParentIdSet(tasks)) :
          tasks' = recalculate_parent_dates(tasks, order)
    /\ projOp' = "recalculate"
    /\ UNCHANGED <<viewVars, serdeVars, histVars, calls, sessionVars, nEdit, nField>>

SortGrouped ==
    /\ tasks'  = sort_tasks_grouped(tasks)
    /\ projOp' = "sort"
    /\ UNCHANGED <<viewVars, serdeVars, histVars, calls, sessionVars, nEdit, nField>>

----------------------------------------------------------------------------
(* task_editor.rs: the "Phase / Parent" selector *)

\* the ids offered as parent for the task task_id
candidates(all_tasks, task_id) ==
    {all_tasks[i].id : i \in {j \in 1..Len(all_tasks) :
        /\ all_tasks[j].id # task_id
        /\ all_tasks[j].parent_id # Some(task_id)
        /\ all_tasks[j].parent_id = None}}

SelectNoParent(i) ==
    /\ nEdit < MaxEdits
    /\ tasks'  = [tasks EXCEPT ![i].parent_id = None]
    /\ projOp' = "select_parent"
    /\ nEdit'  = nEdit + 1
    /\ UNCHANGED <<viewVars, serdeVars, histVars, calls, sessionVars, nField>>

SelectParent(i, cid) ==
    /\ nEdit < MaxEdits
    /\ cid \in candidates(tasks, tasks[i].id)
    /\ tasks'  = [tasks EXCEPT ![i].parent_id = Some(cid)]
    /\ projOp' = "select_parent"
    /\ nEdit'  = nEdit + 1
    /\ UNCHANGED <<viewVars, serdeVars, histVars, calls, sessionVars, nField>>

----------------------------------------------------------------------------

(* task_editor.rs: dates, progress and the milestone toggle *)

is_parent_task(all_tasks, task_id) ==
    \E j \in 1..Len(all_tasks) : all_tasks[j].parent_id = Some(task_id)

\* dp_start_changed without the test that moves end along with start
dp_start_changed_noClamp(task, date) == [task EXCEPT !.start = date]

\* the "dp_start" picker wrote date into task.start
dp_start_changed(task, date) ==
    LET t == [task EXCEPT !.start = date]
    IN  IF t.start > t.end THEN [t EXCEPT !.end = t.start] ELSE t

\* the "dp_end" picker wrote date into task.end
dp_end_changed(task, date) ==
    LET t == [task EXCEPT !.end = date]
    IN  IF t.end < t.start THEN [t EXCEPT !.start = t.end] ELSE t

\* the "dp_milestone" picker wrote date into task.start
dp_milestone_changed(task, date) ==
    LET t == [task EXCEPT !.start = date]
    IN  [t EXCEPT !.end = t.start]

\* the milestone checkbox was flipped
milestone_toggled(task) ==
    LET t == [task EXCEPT !.is_milestone = ~task.is_milestone]
    IN  IF t.is_milestone THEN [t EXCEPT !.end = t.start] ELSE t

EditStart(i, date) ==
    /\ nField < MaxFieldEdits
    /\ ~is_parent_task(tasks, tasks[i].id)
    /\ ~tasks[i].is_milestone
    /\ date # tasks[i].start
    /\ tasks'  = [tasks EXCEPT ![i] = dp_start_changed(tasks[i], date)]
    /\ projOp' = "dp_start"
    /\ nField' = nField + 1
    /\ UNCHANGED <<viewVars, serdeVars, histVars, calls, sessionVars, nEdit>>

EditEnd(i, date) ==
    /\ nField < MaxFieldEdits
    /\ ~is_parent_task(tasks, tasks[i].id)
    /\ ~tasks[i].is_milestone
    /\ date # tasks[i].end
    /\ tasks'  = [tasks EXCEPT ![i] = dp_end_changed(tasks[i], date)]
    /\ projOp' = "dp_end"
    /\ nField' = nField + 1
    /\ UNCHANGED <<viewVars, serdeVars, histVars, calls, sessionVars, nEdit>>

EditMilestoneDate(i, date) ==
    /\ nField < MaxFieldEdits
    /\ ~is_parent_task(tasks, tasks[i].id)
    /\ tasks[i].is_milestone
    /\ date # tasks[i].start
    /\ tasks'  = [tasks EXCEPT ![i] = dp_milestone_changed(tasks[i], date)]
    /\ projOp' = "dp_milestone"
    /\ nField' = nField + 1
    /\ UNCHANGED <<viewVars, serdeVars, histVars, calls, sessionVars, nEdit>>

EditProgress(i, value) ==
    /\ nField < MaxFieldEdits
    /\ ~is_parent_task(tasks, tasks[i].id)
    /\ value # tasks[i].progress
    /\ tasks'  = [tasks EXCEPT ![i].progress = value]
    /\ projOp' = "progress"
    /\ nField' = nField + 1
    /\ UNCHANGED <<viewVars, serdeVars, histVars, calls, sessionVars, nEdit>>

ToggleMilestone(i) ==
    /\ nField < MaxFieldEdits
    /\ tasks'  = [tasks EXCEPT ![i] = milestone_toggled(tasks[i])]
    /\ projOp' = "milestone"
    /\ nField' = nField + 1
    /\ UNCHANGED <<viewVars, serdeVars, histVars, calls, sessionVars, nEdit>>

----------------------------------------------------------------------------
(* f32: IEEE 754 binary32 values as sign, 24-bit significand and exponent *)
(* (value = (-1)^s * m * 2^e with 2^23 <= m < 2^24, or m = 0 for zero),    *)
(* every operation rounded to nearest, ties to even                        *)

F32Zero == [s |-> 0, m |-> 0, e |-> 0]

\* F applied to the values of its arguments, each argument evaluated once
Eval1(F(_), x) == CHOOSE c \in {F(a) : a \in {x}} : TRUE
Eval2(F(_, _), x, y) == CHOOSE c \in {F(a, b) : a \in {x}, b \in {y}} : TRUE
Eval3(F(_, _, _), x, y, z) == CHOOSE c \in {F(a, b, d) : a \in {x}, b \in {y}, d \in {z}} : TRUE

\* the number of binary digits of n, 0 < n < 2^31
BitLen(n) == CHOOSE k \in 1..31 : 2^(k - 1) <= n /\ (k = 31 \/ n < 2^k)

\* q or q + 1, the nearest to q + r / d, the even one of the two on a tie
RoundNearestEven(quotient, remainder, divisor) ==
    Eval3(LAMBDA q, r, d :
    IF 2 * r > d \/ (2 * r = d /\ q % 2 = 1) THEN q + 1 ELSE q
    , quotient, remainder, divisor)

\* a rounded significand may have reached 2^24
F32Norm(sign, significand, exponent) ==
    Eval3(LAMBDA s, m, e :
    IF m = 2^24 THEN [s |-> s, m |-> 2^23, e |-> e + 1]
    ELSE [s |-> s, m |-> m, e |-> e]
    , sign, significand, exponent)

\* `n as f32` for an integer n
F32FromInt(n) ==
    LET a == IF n < 0 THEN 0 - n ELSE n
        s == IF n < 0 THEN 1 ELSE 0
        len == BitLen(a)
    IN  IF a = 0 THEN F32Zero
        ELSE IF len <= 24 THEN [s |-> s, m |-> a * 2^(24 - len), e |-> len - 24]
        ELSE LET d == 2^(len - 24)
             IN  F32Norm(s, RoundNearestEven(a \div d, a % d, d), len - 24)

\* a * b: the 48-bit product of the significands in two 24-bit halves
F32Mul(x, y) ==
    Eval2(LAMBDA a, b :
    IF a.m = 0 \/ b.m = 0 THEN F32Zero
    ELSE LET a1 == a.m \div 2^12
             a0 == a.m % 2^12
             b1 == b.m \div 2^12
             b0 == b.m % 2^12
             mid == a1 * b0 + a0 * b1
             low == a0 * b0 + (mid % 2^12) * 2^12
             lo  == low % 2^24
             hi  == a1 * b1 + mid \div 2^12 + low \div 2^24
             s   == (a.s + b.s) % 2
         IN  IF hi >= 2^23
             THEN F32Norm(s, RoundNearestEven(hi, lo, 2^24), a.e + b.e + 24)
             ELSE F32Norm(s, RoundNearestEven(2 * hi + lo \div 2^23, lo % 2^23, 2^23),
                          a.e + b.e + 23)
    , x, y)

\* long division: six more binary digits of the quotient p.q + p.r / d
DivStep(partial, divisor) ==
    Eval2(LAMBDA p, d :
    [q |-> p.q * 64 + (p.r * 64) \div d, r |-> (p.r * 64) % d]
    , partial, divisor)

\* a / b for b # 0: 24 binary digits after the point of a.m / b.m, which
\* make a 25-digit quotient when a.m >= b.m and a 24-digit one otherwise
F32Div(x, y) ==
    Eval2(LAMBDA a, b :
    IF a.m = 0 THEN F32Zero
    ELSE LET s    == (a.s + b.s) % 2
             whole == [q |-> a.m \div b.m, r |-> a.m % b.m]
             d    == DivStep(DivStep(DivStep(DivStep(whole, b.m), b.m), b.m), b.m)
         IN  IF a.m >= b.m
             THEN F32Norm(s, RoundNearestEven(d.q \div 2, (d.q % 2) * b.m + d.r, 2 * b.m),
                          a.e - b.e - 23)
             ELSE F32Norm(s, RoundNearestEven(d.q, d.r, b.m), a.e - b.e - 24)
    , x, y)

\* `x as i64`: the fraction is dropped (rounding toward zero)
F32ToInt(x) ==
    LET a == IF x.e >= 0 THEN x.m * 2^x.e
             ELSE IF x.e < -24 THEN 0
             ELSE x.m \div 2^(0 - x.e)
    IN  IF x.s = 1 THEN 0 - a ELSE a

\* a > b
F32Gt(x, y) ==
    Eval2(LAMBDA a, b :
    LET MagGt(p, q) == /\ p.m # 0
                       /\ \/ q.m = 0
                          \/ p.e > q.e
                          \/ p.e = q.e /\ p.m > q.m
    IN  IF a.s = 0 /\ b.s = 0 THEN MagGt(a, b)
        ELSE IF a.s = 1 /\ b.s = 1 THEN MagGt(b, a)
        ELSE a.s = 0 /\ (a.m # 0 \/ b.m # 0)
    , x, y)

\* f32::min, f32::max
F32Min(x, y) == Eval2(LAMBDA a, b : IF F32Gt(a, b) THEN b ELSE a, x, y)
F32Max(x, y) == Eval2(LAMBDA a, b : IF F32Gt(b, a) THEN b ELSE a, x, y)

\* the f32 nearest to the decimal literal num / den
F32Lit(num, den) == F32Div(F32FromInt(num), F32FromInt(den))

----------------------------------------------------------------------------
(* timeline.rs *)

INITIAL_PIXELS_PER_DAY == F32Lit(18, 1)
ZOOM_FACTOR            == F32Lit(12, 10)
MAX_PIXELS_PER_DAY     == F32Lit(120, 1)
MIN_PIXELS_PER_DAY     == F32Lit(1, 1)
HOURS_PER_DAY          == F32Lit(24, 1)
SECONDS_PER_HOUR       == F32Lit(3600, 1)
SECONDS_PER_DAY        == F32Lit(86400, 1)
HOURS_ABOVE            == F32Lit(50, 1)
DAYS_ABOVE             == F32Lit(10, 1)
WEEKS_ABOVE            == F32Lit(3, 1)

TimelineScale == {"Hours", "Days", "Weeks", "Months"}

\* TimelineViewport::new; start and end are left out, a datetime is given by
\* its distance in seconds from start
TimelineViewport_new ==
    [scale           |-> "Weeks",
     pixels_per_day  |-> INITIAL_PIXELS_PER_DAY,
     pixels_per_hour |-> F32Div(INITIAL_PIXELS_PER_DAY, HOURS_PER_DAY)]

\* datetime_to_x, seconds = (dt - self.start).num_seconds()
datetime_to_x(self, seconds) ==
    IF self.scale = "Hours"
    THEN LET hours == F32Div(F32FromInt(seconds), SECONDS_PER_HOUR)
         IN  F32Mul(hours, self.pixels_per_hour)
    ELSE LET total_seconds == F32FromInt(seconds)
             days == F32Div(total_seconds, SECONDS_PER_DAY)
         IN  F32Mul(days, self.pixels_per_day)

\* x_to_datetime, the result given as the seconds it adds to self.start
x_to_datetime(self, x) ==
    IF self.scale = "Hours"
    THEN LET hours == F32Div(x, self.pixels_per_hour)
         IN  F32ToInt(F32Mul(hours, SECONDS_PER_HOUR))
    ELSE LET days == F32Div(x, self.pixels_per_day)
         IN  F32ToInt(F32Mul(days, SECONDS_PER_DAY))

update_scale_for_zoom(viewport) ==
    Eval1(LAMBDA self :
    IF F32Gt(self.pixels_per_day, HOURS_ABOVE) THEN [self EXCEPT !.scale = "Hours"]
    ELSE IF F32Gt(self.pixels_per_day, DAYS_ABOVE) THEN [self EXCEPT !.scale = "Days"]
    ELSE IF F32Gt(self.pixels_per_day, WEEKS_ABOVE) THEN [self EXCEPT !.scale = "Weeks"]
    ELSE [self EXCEPT !.scale = "Months"]
    , viewport)

\* zoom_in clamping before it multiplies
zoom_in_clampFirst(self) ==
    LET ppd == F32Mul(F32Min(self.pixels_per_day, MAX_PIXELS_PER_DAY), ZOOM_FACTOR)
    IN  update_scale_for_zoom([self EXCEPT !.pixels_per_day  = ppd,
                                           !.pixels_per_hour = F32Div(ppd, HOURS_PER_DAY)])

zoom_in(self) ==
    LET ppd == F32Min(F32Mul(self.pixels_per_day, ZOOM_FACTOR), MAX_PIXELS_PER_DAY)
    IN  update_scale_for_zoom([self EXCEPT !.pixels_per_day  = ppd,
                                           !.pixels_per_hour = F32Div(ppd, HOURS_PER_DAY)])

zoom_out(self) ==
    LET ppd == F32Max(F32Div(self.pixels_per_day, ZOOM_FACTOR), MIN_PIXELS_PER_DAY)
    IN  update_scale_for_zoom([self EXCEPT !.pixels_per_day  = ppd,
                                           !.pixels_per_hour = F32Div(ppd, HOURS_PER_DAY)])

\* the viewport as one value
Viewport == [scale           |-> scale,
             pixels_per_day  |-> pixels_per_day,
             pixels_per_hour |-> pixels_per_hour]

SetViewport(viewport) ==
    \E v \in {viewport} :
        /\ scale'           = v.scale
        /\ pixels_per_day'  = v.pixels_per_day
        /\ pixels_per_hour' = v.pixels_per_hour

ViewportInit ==
    /\ scale           = TimelineViewport_new.scale
    /\ pixels_per_day  = TimelineViewport_new.pixels_per_day
    /\ pixels_per_hour = TimelineViewport_new.pixels_per_hour
    /\ viewOp      = "new"
    /\ zoomed_from = TimelineViewport_new.pixels_per_day
    /\ held        = "none"
    /\ conv        = None

\* one zoom step in, while no zoom control is held down
ZoomIn ==
    /\ held = "none"
    /\ SetViewport(zoom_in(Viewport))
    /\ viewOp'      = "zoom_in"
    /\ zoomed_from' = pixels_per_day
    /\ conv'        = None
    /\ UNCHANGED <<held, histVars, calls, sessionVars, projVars, serdeVars>>

ZoomOut ==
    /\ held = "none"
    /\ SetViewport(zoom_out(Viewport))
    /\ viewOp'      = "zoom_out"
    /\ zoomed_from' = pixels_per_day
    /\ conv'        = None
    /\ UNCHANGED <<held, histVars, calls, sessionVars, projVars, serdeVars>>

\* from now on the zoom-in (zoom-out) control is held down
HoldZoomIn ==
    /\ held = "none"
    /\ held' = "in"
    /\ UNCHANGED <<scale, pixels_per_day, pixels_per_hour, viewOp, zoomed_from, conv,
                   histVars, calls, sessionVars, projVars, serdeVars>>

HoldZoomOut ==
    /\ held = "none"
    /\ held' = "out"
    /\ UNCHANGED <<scale, pixels_per_day, pixels_per_hour, viewOp, zoomed_from, conv,
                   histVars, calls, sessionVars, projVars, serdeVars>>

\* zoom_in called again while its control is held down
RepeatZoomIn ==
    /\ held = "in"
    /\ SetViewport(zoom_in(Viewport))
    /\ viewOp'      = "zoom_in"
    /\ zoomed_from' = pixels_per_day
    /\ conv'        = None
    /\ UNCHANGED <<held, histVars, calls, sessionVars, projVars, serdeVars>>

RepeatZoomOut ==
    /\ held = "out"
    /\ SetViewport(zoom_out(Viewport))
    /\ viewOp'      = "zoom_out"
    /\ zoomed_from' = pixels_per_day
    /\ conv'        = None
    /\ UNCHANGED <<held, histVars, calls, sessionVars, projVars, serdeVars>>

\* datetime_to_x of the datetime `seconds` after start
DatetimeToX(seconds) ==
    /\ conv'   = Some([dt |-> seconds, x |-> datetime_to_x(Viewport, seconds), back |-> None])
    /\ viewOp' = "datetime_to_x"
    /\ UNCHANGED <<scale, pixels_per_day, pixels_per_hour, zoomed_from, held,
                   histVars, calls, sessionVars, projVars, serdeVars>>

\* x_to_datetime of the pixel offset datetime_to_x has just returned
XToDatetime ==
    /\ conv # None
    /\ conv[1].back = None
    /\ conv'   = Some([conv[1] EXCEPT !.back = Some(x_to_datetime(Viewport, conv[1].x))])
    /\ viewOp' = "x_to_datetime"
    /\ UNCHANGED <<scale, pixels_per_day, pixels_per_hour, zoomed_from, held,
                   histVars, calls, sessionVars, projVars, serdeVars>>

----------------------------------------------------------------------------
(* task.rs, datetime_serde *)

\* NaiveDateTime: a calendar date, the second of the day and the nanosecond
\* of the second
NaiveDateTime(date, secs, nanos) == [date |-> date, secs |-> secs, nanos |-> nanos]

\* A string, by what the three formats look at: the leading %Y-%m-%d date
\* (None when the string does not start with a calendar date), the separator
\* after it ("" when nothing separates), the %H:%M:%S time after the separator
\* (None when there is no valid one) and whatever follows
Text(date, sep, time, rest) == [date |-> date, sep |-> sep, time |-> time, rest |-> rest]

Ok(v)  == <<"Ok", v>>
Err(e) == <<"Err", e>>

\* dt.format("%Y-%m-%dT%H:%M:%S").to_string()
format(dt) == Text(Some(dt.date), "T", Some(dt.secs), "")

\* NaiveDateTime::parse_from_str(&s, "%Y-%m-%d" + sep + "%H:%M:%S")
NaiveDateTime_parse_from_str(s, sep) ==
    IF s.date # None /\ s.sep = sep /\ s.time # None /\ s.rest = ""
    THEN Ok(NaiveDateTime(s.date[1], s.time[1], 0))
    ELSE Err("ParseError")

\* NaiveDate::parse_from_str(&s, "%Y-%m-%d")
NaiveDate_parse_from_str(s) ==
    IF s.date # None /\ s.sep = "" /\ s.time = None /\ s.rest = ""
    THEN Ok(s.date[1])
    ELSE Err("ParseError")

serialize(dt) == format(dt)

deserialize(s) ==
    LET iso  == NaiveDateTime_parse_from_str(s, "T")
        alt  == NaiveDateTime_parse_from_str(s, " ")
        date == NaiveDate_parse_from_str(s)
    IN  IF iso[1] = "Ok" THEN iso
        ELSE IF alt[1] = "Ok" THEN alt
        ELSE IF date[1] = "Ok" THEN Ok(NaiveDateTime(date[2], 0, 0))
        ELSE Err(<<"Failed to parse datetime or date from: ", s>>)

SerdeInit ==
    /\ text    = None
    /\ decoded = None
    /\ written = None
    /\ serdeOp = "new"

\* a task datetime field is read from the string s
Deserialize(s) ==
    /\ text'    = Some(s)
    /\ decoded' = Some(deserialize(s))
    /\ written' = None
    /\ serdeOp' = "deserialize"
    /\ UNCHANGED <<histVars, calls, sessionVars, projVars, viewVars>>

\* a task datetime field is written
Serialize(dt) ==
    /\ written' = Some(dt)
    /\ text'    = Some(serialize(dt))
    /\ decoded' = None
    /\ serdeOp' = "serialize"
    /\ UNCHANGED <<histVars, calls, sessionVars, projVars, viewVars>>

\* the string just written is read back
DeserializeWritten ==
    /\ serdeOp = "serialize"
    /\ decoded' = Some(deserialize(text[1]))
    /\ serdeOp' = "reload"
    /\ UNCHANGED <<text, written, histVars, calls, sessionVars, projVars, viewVars>>

----------------------------------------------------------------------------

HistoryInit ==
    /\ past   = new.past
    /\ future = new.future
    /\ ret    = None
    /\ lastOp = "new"
    /\ calls  = <<>>
    /\ cur    = ProjectSnapshot(0, 0)
    /\ timeline   = <<cur>>
    /\ pos        = 1
    /\ overflowed = FALSE
    /\ nMut       = 0
    /\ nUndoRedo  = 0
    /\ nClear     = 0

Init ==
    /\ HistoryInit
    /\ ViewportInit
    /\ SerdeInit
    /\ tasks  = <<>>
    /\ projOp = "new"
    /\ nEdit  = 0
    /\ nField = 0

NextApi ==
    \/ \E s \in Snapshots : ApiPush(s)
    \/ \E c \in Snapshots : ApiUndo(c)
    \/ \E c \in Snapshots : ApiRedo(c)
    \/ ApiClear

SpecApi == Init /\ [][NextApi]_vars

NextSession ==
    \/ Mutate
    \/ Undo
    \/ Redo
    \/ Clear

SpecSession == Init /\ [][NextSession]_vars

\* the tasks of a project being edited: created by Task::new, then given
\* dates and a progress value through the editor
Days == 0..MaxDay

ProgressLevels == {Frac(0, 1), Frac(1, 1)}

EditedTask(id, start, end, progress) ==
    [Task_new(id, start, end) EXCEPT !.progress = progress]

InitEditor ==
    /\ HistoryInit
    /\ ViewportInit
    /\ SerdeInit
    /\ tasks \in {ts \in [1..NumTasks ->
                           {EditedTask(id, a, b, p) :
                              id \in 1..NumTasks, a \in Days, b \in Days,
                              p \in ProgressLevels}] :
                    \A i \in 1..NumTasks : ts[i].id = i /\ ts[i].start <= ts[i].end}
    /\ projOp = "new"
    /\ nEdit  = 0
    /\ nField = 0

NextEditor ==
    \/ \E i \in 1..Len(tasks) : SelectNoParent(i)
    \/ \E i \in 1..Len(tasks) : \E cid \in 1..NumTasks : SelectParent(i, cid)
    \/ Recalculate

SpecEditor == InitEditor /\ [][NextEditor]_vars

\* the whole task editor, on tasks as Task::new (spanning all the days) and
\* Task::new_milestone (on day 0) make them
InitTaskEditor ==
    /\ HistoryInit
    /\ ViewportInit
    /\ SerdeInit
    /\ tasks \in [1..NumTasks -> {Task_new(id, 0, MaxDay) : id \in 1..NumTasks}
                                \cup {Task_new_milestone(id, 0) : id \in 1..NumTasks}]
    /\ \A i \in 1..NumTasks : tasks[i].id = i
    /\ projOp = "new"
    /\ nEdit  = 0
    /\ nField = 0

\* the editor session still has a step left
InSession == nEdit + nField < MaxEditorSteps

NextTaskEditor ==
    \/ InSession /\ \E i \in 1..Len(tasks) : SelectNoParent(i)
    \/ InSession /\ \E i \in 1..Len(tasks) : \E cid \in 1..NumTasks : SelectParent(i, cid)
    \/ InSession /\ \E i \in 1..Len(tasks) : \E date \in Days : EditStart(i, date)
    \/ InSession /\ \E i \in 1..Len(tasks) : \E date \in Days : EditEnd(i, date)
    \/ InSession /\ \E i \in 1..Len(tasks) : \E date \in Days : EditMilestoneDate(i, date)
    \/ InSession /\ \E i \in 1..Len(tasks) : \E value \in ProgressLevels : EditProgress(i, value)
    \/ InSession /\ \E i \in 1..Len(tasks) : ToggleMilestone(i)
    \/ Recalculate

SpecTaskEditor == InitTaskEditor /\ [][NextTaskEditor]_vars

\* any task list with distinct ids; a parent id may name a task of the list,
\* the task itself, or no task at all (ids NumTasks + 1 and those left out)
TaskIds == 1..NumTasks

ListedTask(id, parent) ==
    [Task_new(id, 0, id) EXCEPT !.parent_id = parent]

TaskLists ==
    UNION {{ts \in [1..n -> {ListedTask(id, par) :
                               id \in TaskIds,
                               par \in {None} \cup {Some(q) : q \in 1..(NumTasks + 1)}}] :
              \A i, j \in 1..n : i # j => ts[i].id # ts[j].id} : n \in 0..NumTasks}

InitTaskList ==
    /\ HistoryInit
    /\ ViewportInit
    /\ SerdeInit
    /\ tasks \in TaskLists
    /\ projOp = "new"
    /\ nEdit  = 0
    /\ nField = 0

NextTaskList ==
    \/ SortGrouped
    \/ Recalculate

SpecTaskList == InitTaskList /\ [][NextTaskList]_vars

\* the datetimes converted: at the viewport start and a second after it, a
\* day before it, a day after it and MaxSpanDays after it
Offsets == {d * 86400 + r : d \in {-1, 0, 1, MaxSpanDays}, r \in {0, 1}}

InitViewport == Init

NextViewport ==
    \/ ZoomIn
    \/ ZoomOut
    \/ HoldZoomIn
    \/ HoldZoomOut
    \/ RepeatZoomIn
    \/ RepeatZoomOut
    \/ \E seconds \in Offsets : DatetimeToX(seconds)
    \/ XToDatetime

SpecViewport == InitViewport /\ [][NextViewport]_vars

\* the zoom calls alone
NextZoom ==
    \/ ZoomIn
    \/ ZoomOut
    \/ HoldZoomIn
    \/ HoldZoomOut
    \/ RepeatZoomIn
    \/ RepeatZoomOut

\* a held zoom control keeps calling its zoom
SpecZoom ==
    /\ InitViewport
    /\ [][NextZoom]_vars
    /\ WF_vars(RepeatZoomIn)
    /\ WF_vars(RepeatZoomOut)

\* the datetimes written and the strings read
TimesOfDay == {0, 43200, 86399}

DateTimes ==
    {NaiveDateTime(date, secs, nanos) : date \in Days, secs \in TimesOfDay, nanos \in {0, 1}}

Texts ==
    {Text(date, sep, time, rest) :
        date \in {None} \cup {Some(d) : d \in Days},
        sep  \in {"T", " ", "", "/"},
        time \in {None} \cup {Some(t) : t \in TimesOfDay},
        rest \in {"", "Z"}}

InitSerde == Init

NextSerde ==
    \/ \E s \in Texts : Deserialize(s)
    \/ \E dt \in DateTimes : Serialize(dt)
    \/ DeserializeWritten

SpecSerde == InitSerde /\ [][NextSerde]_vars

----------------------------------------------------------------------------
(* Claims about UndoHistory *)

Arg(c) == ProjectSnapshot(c.tasks, c.dependencies)

OnlyPushes == nUndoRedo = 0 /\ nClear = 0

\* C1: past never holds more than MAX_HISTORY (50) snapshots, and after n
\* pushes and nothing else it holds the last min(n, 50) pushed snapshots in
\* push order (the k-th push of a session pushes the k-th state of the
\* timeline), so the 51st push evicts the oldest.
C1_PastHoldsLast50 ==
    /\ Len(past) <= MAX_HISTORY
    /\ OnlyPushes =>
         past = SubSeq(timeline,
                       IF nMut > MAX_HISTORY THEN nMut - MAX_HISTORY + 1 ELSE 1,
                       nMut)

C1_Witness ==
    /\ OnlyPushes
    /\ nMut = MAX_HISTORY + 1
    /\ Len(past) = MAX_HISTORY
    /\ past[1] = timeline[2]
    /\ past[MAX_HISTORY] = timeline[MAX_HISTORY + 1]

\* C2: right after any push the future stack is empty and can_redo() is
\* false, whatever calls came before.
C2_PushClearsFuture ==
    lastOp = "push" => (future = <<>> /\ ~can_redo(History))

C2_Witness ==
    /\ Len(calls) = 3
    /\ calls[1].op = "push"
    /\ calls[2].op = "undo"
    /\ calls[3].op = "push"
    /\ future = <<>>
    /\ ~can_redo(History)

PushPushUndo ==
    /\ Len(calls) >= 3
    /\ calls[1].op = "push"
    /\ calls[2].op = "push"
    /\ calls[3].op = "undo"

PushPushUndoRedo ==
    /\ PushPushUndo
    /\ Len(calls) = 4
    /\ calls[4].op = "redo"

\* C3 as stated: from an empty history, after push(A) and push(B), undo
\* returns A's snapshot and a following redo returns B's snapshot.
C3_Original ==
    /\ (PushPushUndo /\ Len(calls) = 3) => ret = Some(Arg(calls[1]))
    /\ PushPushUndoRedo => ret = Some(Arg(calls[2]))

\* C3 amended: from an empty history, after push(A) and push(B), undo returns
\* B's snapshot (the most recently pushed one) and leaves A in past; a
\* following redo returns the current state that was passed to that undo and
\* puts the current state passed to redo back on top of A.
C3_UndoReturnsLastPushed ==
    /\ (PushPushUndo /\ Len(calls) = 3) =>
          /\ ret = Some(Arg(calls[2]))
          /\ past = <<Arg(calls[1])>>
          /\ future = <<Arg(calls[3])>>
    /\ PushPushUndoRedo =>
          /\ ret = Some(Arg(calls[3]))
          /\ past = <<Arg(calls[1]), Arg(calls[4])>>
          /\ future = <<>>

C3_Witness ==
    /\ PushPushUndoRedo
    /\ Arg(calls[1]) # Arg(calls[2])
    /\ Arg(calls[3]) # Arg(calls[2])
    /\ Arg(calls[3]) # Arg(calls[1])
    /\ ret = Some(Arg(calls[3]))

\* C4: in a session that follows the protocol, as long as no mutation was
\* made on top of 50 undoable steps, the current state is the state of the
\* timeline the session stands at: an undo restores the state that was
\* current before the last not-yet-undone mutation, a redo the state that was
\* current before the undo.
C4_ExactRestoration ==
    ~overflowed => cur = timeline[pos]

C4_Witness ==
    /\ lastOp = "redo"
    /\ ret # None
    /\ nUndoRedo = 2
    /\ ~overflowed
    /\ pos = Len(timeline)
    /\ pos > 2
    /\ cur = timeline[pos]
    /\ cur.tasks # past[Len(past)].tasks
    /\ cur.dependencies # past[Len(past) - 1].dependencies

\* C5: undo on an empty past stack, and redo on an empty future stack, return
\* None and change neither stack; an undo or redo that finds a snapshot
\* returns Some, so the two outcomes can be told apart.
C5_EmptyStackNoEffect ==
    [][/\ (lastOp' = "undo" /\ past = <<>>) =>
             (ret' = None /\ past' = past /\ future' = future)
       /\ (lastOp' = "redo" /\ future = <<>>) =>
             (ret' = None /\ past' = past /\ future' = future)
       /\ (lastOp' = "undo" /\ past # <<>>) => ret' # None
       /\ (lastOp' = "redo" /\ future # <<>>) => ret' # None]_vars

C5_Witness ==
    /\ Len(calls) = 3
    /\ calls[1].op = "push"
    /\ calls[2].op = "undo"
    /\ calls[3].op = "undo"
    /\ ret = None
    /\ past = <<>>
    /\ future # <<>>

----------------------------------------------------------------------------
(* Claims about Project and the parent selector *)

TopLevel(t) == t.parent_id = None

HasChildren(ts, t) == \E j \in 1..Len(ts) : ts[j].parent_id = Some(t.id)

Derived(ts, t) ==
    LET children == Children(ts, t.id)
    IN  /\ \A j \in 1..Len(children) : t.start <= children[j].start
        /\ \E j \in 1..Len(children) : t.start = children[j].start
        /\ \A j \in 1..Len(children) : t.end >= children[j].end
        /\ \E j \in 1..Len(children) : t.end = children[j].end
        /\ t.progress = FracDiv(SumProgress(children), Len(children))

\* C6: after recalculate_parent_dates every task that has at least one child
\* has start = min of its children's starts, end = max of its children's
\* ends and progress = mean of its children's progress.
C6_ParentsDerived ==
    projOp = "recalculate" =>
        \A i \in 1..Len(tasks) :
            HasChildren(tasks, tasks[i]) => Derived(tasks, tasks[i])

\* C7: a second recalculate_parent_dates right after a first one leaves the
\* start, end and progress of every parent as the first call left them.
C7_RecalculateIdempotent ==
    [][(projOp = "recalculate" /\ projOp' = "recalculate") =>
          \A i \in 1..Len(tasks) :
              HasChildren(tasks, tasks[i]) =>
                  /\ tasks'[i].start    = tasks[i].start
                  /\ tasks'[i].end      = tasks[i].end
                  /\ tasks'[i].progress = tasks[i].progress]_vars

Grouped(in, out) ==
    /\ SelectSeq(out, TopLevel) = SelectSeq(in, TopLevel)
    /\ \A k \in 1..Len(out) :
          TopLevel(out[k]) =>
              LET ch == SelectSeq(in, LAMBDA t : t.parent_id = Some(out[k].id))
              IN  /\ k + Len(ch) <= Len(out)
                  /\ SubSeq(out, k + 1, k + Len(ch)) = ch

\* C8: sort_tasks_grouped puts right after every top-level task, without a
\* gap, all the tasks whose parent it is, in their original relative order,
\* and keeps the original relative order of the top-level tasks.
C8_SortGroupsChildren ==
    [][projOp' = "sort" => Grouped(tasks, tasks')]_vars

C8_Witness ==
    /\ projOp = "sort"
    /\ Len(tasks) = NumTasks
    /\ TopLevel(tasks[1])
    /\ \A k \in 2..(NumTasks - 1) : tasks[k].parent_id = Some(tasks[1].id)
    /\ tasks[2].id > tasks[NumTasks].id
    /\ TopLevel(tasks[NumTasks])

Dangling(ts, t) ==
    /\ t.parent_id # None
    /\ \A j \in 1..Len(ts) : ts[j].id # t.parent_id[1]

InValidGroup(ts, t) ==
    \/ TopLevel(t)
    \/ \E j \in 1..Len(ts) : TopLevel(ts[j]) /\ t.parent_id = Some(ts[j].id)

Permutation(in, out) ==
    /\ Len(out) = Len(in)
    /\ \A i \in 1..Len(in) : Cardinality({k \in 1..Len(out) : out[k] = in[i]}) = 1

DanglingLast(in, out) ==
    /\ \A k, m \in 1..Len(out) :
          (Dangling(out, out[k]) /\ InValidGroup(out, out[m])) => m < k
    /\ SelectSeq(out, LAMBDA t : Dangling(out, t)) =
       SelectSeq(in, LAMBDA t : Dangling(in, t))

\* C9: the result of sort_tasks_grouped is a permutation of its input (every
\* task, with all its fields, occurs exactly once), and the tasks whose parent
\* id names no existing task come after every top-level task and every child
\* of a top-level task, in their original relative order.
C9_SortIsPermutation ==
    [][projOp' = "sort" => (Permutation(tasks, tasks') /\ DanglingLast(tasks, tasks'))]_vars

C9_Witness ==
    /\ projOp = "sort"
    /\ Len(tasks) = NumTasks
    /\ Dangling(tasks, tasks[NumTasks])
    /\ Dangling(tasks, tasks[NumTasks - 1])
    /\ tasks[NumTasks].id < tasks[NumTasks - 1].id
    /\ TopLevel(tasks[1])

\* C10: every task whose parent id is set has a parent that itself has no
\* parent (single level of nesting), in every state reached by parent
\* selections in the editor.
C10_SingleLevelNesting ==
    \A i, j \in 1..Len(tasks) :
        tasks[i].parent_id = Some(tasks[j].id) => tasks[j].parent_id = None

----------------------------------------------------------------------------
(* Capacity of the two stacks together *)

\* C19: under any interleaving of push, undo, redo and clear, past and future
\* together never hold more than MAX_HISTORY (50) snapshots; so redo, which
\* appends to past without a capacity test, never makes past exceed 50.
C19_StacksWithinCapacity ==
    /\ Len(past) + Len(future) <= MAX_HISTORY
    /\ Len(past) <= MAX_HISTORY

C19_Witness ==
    /\ lastOp = "redo"
    /\ ret # None
    /\ nMut > MAX_HISTORY
    /\ Len(past) = MAX_HISTORY
    /\ future = <<>>

----------------------------------------------------------------------------
(* Claims about the fields the task editor writes *)

\* C11: in every state reached from tasks made by Task::new and
\* Task::new_milestone through the editor (milestone toggle, date edits,
\* parent selection) and recalculate_parent_dates, every task with
\* is_milestone set has start = end.
C11_MilestoneIsOneInstant ==
    \A i \in 1..Len(tasks) : tasks[i].is_milestone => tasks[i].start = tasks[i].end

\* C12: while a task has at least one child, no editor operation writes its
\* start, end or progress; only recalculate_parent_dates changes them.
C12_ParentFieldsNotAuthored ==
    [][projOp' # "recalculate" =>
          \A i \in 1..Len(tasks) :
              HasChildren(tasks, tasks[i]) =>
                  /\ tasks'[i].start    = tasks[i].start
                  /\ tasks'[i].end      = tasks[i].end
                  /\ tasks'[i].progress = tasks[i].progress]_vars

\* C18: every task starting with start <= end, every task still has
\* start <= end after any sequence of date edits in the editor (start picker,
\* end picker, milestone date, milestone toggle) and recalculate_parent_dates.
C18_StartNotAfterEnd ==
    \A i \in 1..Len(tasks) : tasks[i].start <= tasks[i].end

\* both field edits went to one task and left it on the last day (the second
\* one moved its end along with its start); it became a child and its parent
\* took these dates in recalculate_parent_dates
C18_Witness ==
    /\ projOp = "recalculate"
    /\ nField >= 2
    /\ \E i, j \in 1..Len(tasks) :
           /\ tasks[j].parent_id = Some(tasks[i].id)
           /\ ~tasks[j].is_milestone
           /\ tasks[j].progress = Frac(0, 1)
           /\ tasks[j].start = MaxDay
           /\ tasks[i].start = MaxDay
           /\ tasks[i].end   = MaxDay
           /\ ~tasks[i].is_milestone
           /\ \A k \in 1..Len(tasks) :
                  k \notin {i, j} => tasks[k] = Task_new(tasks[k].id, 0, MaxDay)

----------------------------------------------------------------------------
(* What recalculate_parent_dates leaves alone *)

\* C17: recalculate_parent_dates changes nothing but the start, end and
\* progress of tasks that have at least one child: a task with no child
\* (a task whose parent id is dangling included) keeps all its fields, and
\* the number, order, ids, parent links and milestone flags of all tasks stay.
C17_RecalculateFrame ==
    [][projOp' = "recalculate" =>
          /\ Len(tasks') = Len(tasks)
          /\ \A i \in 1..Len(tasks) :
                 /\ tasks'[i].id           = tasks[i].id
                 /\ tasks'[i].parent_id    = tasks[i].parent_id
                 /\ tasks'[i].is_milestone = tasks[i].is_milestone
                 /\ ~HasChildren(tasks, tasks[i]) => tasks'[i] = tasks[i]]_vars

\* after a recalculation: a parent has taken its child's end, a task with a
\* dangling parent id and no child still has the dates it was made with
C17_Witness ==
    /\ projOp = "recalculate"
    /\ Len(tasks) = NumTasks
    /\ \E i, j, k \in 1..Len(tasks) :
           /\ tasks[j].parent_id = Some(tasks[i].id)
           /\ i # j
           /\ tasks[i].end = tasks[j].end
           /\ tasks[i].end # tasks[i].id
           /\ Dangling(tasks, tasks[k])
           /\ ~HasChildren(tasks, tasks[k])
           /\ tasks[k] = ListedTask(tasks[k].id, tasks[k].parent_id)

----------------------------------------------------------------------------
(* Claims about TimelineViewport *)

\* C13: in every state reached from new() by zoom_in and zoom_out the scale
\* is the one the thresholds select for pixels_per_day: Hours above 50, Days
\* in (10, 50], Weeks in (3, 10], Months at or below 3.
C13_ScaleFollowsThresholds ==
    LET above(n) == F32Gt(pixels_per_day, F32FromInt(n))
    IN  /\ scale = "Hours"  <=> above(50)
        /\ scale = "Days"   <=> above(10) /\ ~above(50)
        /\ scale = "Weeks"  <=> above(3) /\ ~above(10)
        /\ scale = "Months" <=> ~above(3)

AtUpperClamp == pixels_per_day = F32FromInt(120) /\ scale = "Hours"

AtLowerClamp == pixels_per_day = F32FromInt(1) /\ scale = "Months"

\* C14: pixels_per_day never leaves [1, 120]; a zoom_in at 120 (a zoom_out
\* at 1) changes neither pixels_per_day nor the scale; zoom_in repeated
\* reaches 120 with scale Hours, zoom_out repeated reaches 1 with scale Months.
C14_ClampsReachedAndStable ==
    /\ [](/\ ~F32Gt(F32FromInt(1), pixels_per_day)
          /\ ~F32Gt(pixels_per_day, F32FromInt(120)))
    /\ [][(viewOp' = "zoom_in" /\ pixels_per_day = F32FromInt(120)) =>
              (pixels_per_day' = pixels_per_day /\ scale' = scale)]_vars
    /\ [][(viewOp' = "zoom_out" /\ pixels_per_day = F32FromInt(1)) =>
              (pixels_per_day' = pixels_per_day /\ scale' = scale)]_vars
    /\ (held = "in")  ~> AtUpperClamp
    /\ (held = "out") ~> AtLowerClamp

\* zoom_in was called once more at the upper clamp
C14_Witness ==
    /\ held = "in"
    /\ viewOp = "zoom_in"
    /\ zoomed_from = F32FromInt(120)
    /\ AtUpperClamp

\* C15: for every datetime dt and every viewport state,
\* x_to_datetime(datetime_to_x(dt)) is at most one second away from dt.
C15_RoundTripWithinOneSecond ==
    (conv # None /\ conv[1].back # None) =>
        LET diff == conv[1].back[1] - conv[1].dt
        IN  diff >= -1 /\ diff <= 1

----------------------------------------------------------------------------
(* Claims about datetime_serde *)

IsoForm(s)      == s.date # None /\ s.sep = "T" /\ s.time # None /\ s.rest = ""
SpaceForm(s)    == s.date # None /\ s.sep = " " /\ s.time # None /\ s.rest = ""
DateOnlyForm(s) == s.date # None /\ s.sep = "" /\ s.time = None /\ s.rest = ""

\* C16: decoding a datetime field succeeds for exactly the three forms
\* YYYY-MM-DDTHH:MM:SS, YYYY-MM-DD HH:MM:SS and YYYY-MM-DD (decoded as midnight
\* of that date) and fails with an error for every other string; a datetime
\* written by the encoder decodes back to the same datetime.
C16_ThreeFormsAndRoundTrip ==
    /\ serdeOp = "deserialize" =>
           LET s == text[1]
               r == decoded[1]
           IN  /\ r[1] = "Ok" <=> (IsoForm(s) \/ SpaceForm(s) \/ DateOnlyForm(s))
               /\ (IsoForm(s) \/ SpaceForm(s)) =>
                      r = Ok(NaiveDateTime(s.date[1], s.time[1], 0))
               /\ DateOnlyForm(s) => r = Ok(NaiveDateTime(s.date[1], 0, 0))
    /\ serdeOp = "reload" => decoded[1] = Ok(written[1])

====
